---- MODULE Spec2Model ----
(***************************************************************************)
(* The event store of createEventStore (src/unnamed/part_010, lines 74 to  *)
(* 196) running over an adapter whose requestLock is the promise-slot lock *)
(* of NodeJsonStreamAdapter (src/packages/react/index.tsx, lines 209 to    *)
(* 221).  Every caller is one asynchronous call chain; a chain is either   *)
(* suspended on a promise, or its continuation sits in the microtask queue *)
(* mq, which the JavaScript run time serves strictly first in, first out.  *)
(* Code outside the store (the application, the adapter, a transaction's   *)
(* callback) runs between two microtasks only where it can have been       *)
(* queued: mq marks those places with UserSlot.  The event database of     *)
(* createEventDatabase over JsonStreamEventAdapter (src/package/index.ts,  *)
(* lines 47 to 199) is modelled by the same call chains over the text of   *)
(* its two files.                                                          *)
(***************************************************************************)
EXTENDS Integers, Sequences, FiniteSets, TLC

\* Number of callers; each caller issues one operation of the store.
NumProcs == 3
\* Largest number of commit() calls one transaction body makes.
MaxCommits == 3
\* Largest number of records in the persisted log at construction.
MaxInitLen == 2
\* Number of callers of saveEvent where nothing else is called.
NumSavers == 5
MaxSaved == 2
\* Largest number of saveEvent calls one transaction callback awaits.
MaxBodySaves == 1
\* Number of listeners that may subscribe.
NumListeners == 2
\* Largest number of subscribe() calls.
MaxSubscriptions == 2
\* Largest number of calls of one unsubscribe function.
MaxUnsubscribeCalls == 2

Procs == 1..NumProcs
Savers == 1..NumSavers
Listeners == 1..NumListeners

\* The value null of the lock slot.
Null == <<>>

\* A promise created by requestLock: <<p, 0>> for the operation p called,
\* <<p, i>> for the i-th saveEvent made by p's transaction.
Token(p, n) == <<p, n>>

\* Records of the log.  Event(p, k): the k-th event committed by p's
\* transaction, Event(p, 0) the event of p's saveEvent.  A record of the
\* log found at construction is Persisted(i) or, if no parser accepts it,
\* Malformed(i).
Event(p, k) == <<p, k>>
Persisted(i) == <<0, i>>
Malformed(i) == <<-1, i>>

RECURSIVE LogsOfLength(_)
LogsOfLength(n) ==
  IF n = 0 THEN {<<>>}
  ELSE {Append(l, r) : l \in LogsOfLength(n - 1), r \in {Persisted(n), Malformed(n)}}

InitLogs == UNION {LogsOfLength(n) : n \in 0..MaxInitLen}

VARIABLES
  lock,              \* the adapter's field lock: Null or the promise last stored
  resolved,          \* the promises whose resolve function has been called
  held,              \* promises handed out by requestLock and not yet released
  waitq,             \* <<p, promise>>: p is suspended in "await this.lock", oldest first
  mq,                \* microtask queue: callers whose continuation is ready, and UserSlot
  pc,                \* position of each caller
  op,                \* the operation each caller issued
  cur,               \* argument of the saveEvent a caller is running
  idx,               \* index of the array iterator of transaction's for-of loop
  got,               \* what adapter.retrieve() returned to initialize
  result,            \* value the operation returned
  errors,            \* length of the errors list of a returned CorruptionError
  state,             \* let state
  events,            \* let events
  uncommitedEvents,  \* const uncommitedEvents
  subscribers,       \* const subscribers
  log,               \* the records the adapter has persisted
  committed,         \* history: events the body committed since its last rollback
  handed,            \* history: arguments of the calls of adapter.save, in call order
  failed,            \* history: callers one of whose adapter.save calls was rejected
  ncommits,          \* history: number of commit() calls each body has made
  notified,          \* history: the listeners invoked for each caller, in order
  calledCorrupted,   \* history: callers that called after a CorruptionError and before any successful initialize
  registered,        \* history: the listener of each subscribe() call, in call order
  calls,             \* history: number of calls of the unsubscribe function each subscribe() returned
  eventsFile,        \* text of the file at path.events of JsonStreamEventAdapter
  archiveFile,       \* text of the file at path.archive
  appended,          \* history: the events appendFile has added to the file at path.events
  item,              \* storage.getItem(eventsKey) of WebStorageEventAdapter: Null or a text
  stored,            \* history: the events WebStorageEventAdapter.save has stored
  inTransaction,     \* let inTransaction of the store that buffers saveEvent calls
  eventsArray,       \* identity of the array that let events refers to
  retired,           \* contents of the arrays let events referred to before, by identity
  obtained           \* <<identity, contents>> of the array getEvents() returned to each caller

vars == <<lock, resolved, held, waitq, mq, pc, op, cur, idx, got, result, errors,
          state, events, uncommitedEvents, subscribers, log, committed, handed,
          failed, ncommits, notified, calledCorrupted, registered, calls,
          eventsFile, archiveFile, appended, item, stored, inTransaction,
          eventsArray, retired, obtained>>

lockVars == <<lock, resolved, held, waitq>>
cacheVars == <<state, events>>
histVars == <<committed, handed, failed, ncommits, notified>>
obsVars == <<calledCorrupted>>
subVars == <<registered, calls>>
webVars == <<item, stored>>
flagVars == <<inTransaction>>
viewVars == <<eventsArray, retired, obtained>>
fileVars == <<eventsFile, archiveFile, appended, webVars>>

\* options.state, the zero-state.
initialState == <<>>

\* The characters of a file of JsonStreamEventAdapter: brackets, commas, line
\* feeds, and the text JSON.stringify gives for one value.
LeftBracket == <<"[", <<>>>>
RightBracket == <<"]", <<>>>>
Comma == <<",", <<>>>>
LineFeed == <<"LF", <<>>>>

\* An event whose data holds a string with the characters ",]", and the
\* value its text stands for once the comma of that string is gone.
WithCommaBracket(i) == <<-3, i>>
HasCommaBracket(value) == value[1] = -3
WithoutComma(value) == <<-4, value[2]>>

\* A comma and a right bracket that stand inside a string of a value.
CommaInString == <<",", <<-3>>>>
BracketInString == <<"]", <<-3>>>>

\* JSON.stringify(value): one piece of text, or for a value with ",]" in a
\* string the text before these two characters, the two, and the text after.
stringify(value) ==
  IF HasCommaBracket(value)
  THEN <<<<"json-", value>>, CommaInString, BracketInString, <<"-json", value>>>>
  ELSE <<<<"json", value>>>>

\* writeFile(path, "[\n") of JsonStreamEventAdapter.for
emptyFile == <<LeftBracket, LineFeed>>

\* options.replay: the reducer that forgets nothing about the events folded.
replay(previousState, event) == Append(previousState, event)

\* options.parser: an event, or an Error for a record it rejects.
parser(record) == [isError |-> record[1] = -1, value |-> record]

Range(s) == {s[i] : i \in 1..Len(s)}

\* The store right after createEventStore(options), whatever the adapter
\* holds, with the callers P about to call it.
Created(P) ==
  /\ lock = Null
  /\ resolved = {}
  /\ held = {}
  /\ waitq = <<>>
  /\ mq = <<>>
  /\ pc = [p \in P |-> "idle"]
  /\ op = [p \in P |-> "none"]
  /\ cur = [p \in P |-> Null]
  /\ idx = [p \in P |-> 0]
  /\ got = [p \in P |-> <<>>]
  /\ result = [p \in P |-> "pending"]
  /\ errors = [p \in P |-> 0]
  /\ state = initialState
  /\ events = <<>>
  /\ uncommitedEvents = <<>>
  /\ subscribers = <<>>
  /\ committed = [p \in P |-> <<>>]
  /\ handed = <<>>
  /\ failed = {}
  /\ ncommits = [p \in P |-> 0]
  /\ notified = [p \in P |-> <<>>]
  /\ calledCorrupted = {}
  /\ registered = <<>>
  /\ calls = <<>>
  /\ inTransaction = FALSE
  /\ eventsArray = 1
  /\ retired = <<>>
  /\ obtained = [p \in P |-> Null]

Constructed == Created(Procs)

\* The files of a JsonStreamEventAdapter nothing has been saved to.
NoFiles ==
  /\ eventsFile = emptyFile
  /\ archiveFile = emptyFile
  /\ appended = <<>>
  /\ item = Null
  /\ stored = <<>>

\* A store created over an adapter that has persisted nothing yet.
Init == Constructed /\ log = <<>> /\ NoFiles

\* A store created over a log persisted earlier, of which it has read nothing.
InitReopened == Constructed /\ log \in InitLogs \ {<<>>} /\ NoFiles

----------------------------------------------------------------------------
\* requestLock, up to its first suspension.  lk is <<lock, resolved, held,
\* waitq, mq>>; the result adds the position of the caller p: "lock" when p
\* awaits the promise in the slot, "granted" when requestLock has returned.
requestLock(p, tok, lk) ==
  IF lk.lock = Null
  THEN [lk EXCEPT !.lock = tok, !.held = @ \cup {tok}, !.mq = Append(@, p), !.at = "granted"]
  ELSE IF lk.lock \in lk.resolved
       THEN [lk EXCEPT !.mq = Append(@, p), !.at = "lock"]
       ELSE [lk EXCEPT !.waitq = Append(@, <<p, lk.lock>>), !.at = "lock"]

\* The callers suspended on promise tok, in the order they suspended.
RECURSIVE Reactions(_, _)
Reactions(q, tok) ==
  IF q = <<>> THEN <<>>
  ELSE IF Head(q)[2] = tok THEN <<Head(q)[1]>> \o Reactions(Tail(q), tok)
       ELSE Reactions(Tail(q), tok)

RECURSIVE Others(_, _)
Others(q, tok) ==
  IF q = <<>> THEN <<>>
  ELSE IF Head(q)[2] = tok THEN Others(Tail(q), tok)
       ELSE <<Head(q)>> \o Others(Tail(q), tok)

\* A resolve function that settles nothing: the promise stays pending.
releaseLockPending(tok, lk) == [lk EXCEPT !.held = @ \ {tok}]

\* releaseLock: the resolve function of promise tok.  The slot keeps the
\* promise; its reactions are queued in the order they were registered.
releaseLock(tok, lk) ==
  [lk EXCEPT !.resolved = @ \cup {tok},
             !.held = @ \ {tok},
             !.waitq = Others(@, tok),
             !.mq = @ \o Reactions(lk.waitq, tok)]

Lk(m) == [lock |-> lock, resolved |-> resolved, held |-> held, waitq |-> waitq,
          mq |-> m, at |-> "none"]

SetLk(lk) ==
  /\ lock' = lk.lock
  /\ resolved' = lk.resolved
  /\ held' = lk.held
  /\ waitq' = lk.waitq
  /\ mq' = lk.mq

\* The promise the requestLock call of caller p creates.
TokenOf(p) == IF op[p] = "tx" /\ pc[p] \in {"sv_lock", "sv_granted", "sv_io", "sv_ok", "sv_err"}
              THEN Token(p, idx[p] + 1)
              ELSE Token(p, 0)

\* A place of the microtask queue where code outside the store may run: a
\* reaction the application queued, or its synchronous code still running.
UserSlot == 0

\* Two places in a row are one place; a queue of one place is an idle loop.
Front(m) == IF m # <<>> /\ Head(m) = UserSlot THEN m ELSE <<UserSlot>> \o m

Back(m) == IF m # <<>> /\ m[Len(m)] = UserSlot THEN m ELSE Append(m, UserSlot)

Norm(m) == IF m = <<UserSlot>> THEN <<>> ELSE m

\* Code outside the store may run now: the loop is idle (timers, I/O), or
\* the next microtask is the application's.
Open == IF mq = <<>> THEN TRUE ELSE Head(mq) = UserSlot

Strip(m) == IF m # <<>> /\ Head(m) = UserSlot THEN Tail(m) ELSE m

\* The continuation of caller p is the next microtask of the store.
Running(p) == IF Strip(mq) = <<>> THEN FALSE ELSE Head(Strip(mq)) = p

\* The queue a microtask of the store sees once it has been taken off it.
Popped == Tail(Strip(mq))

\* The queue that code outside the store sees while it runs.
Entered == IF mq = <<>> THEN <<UserSlot>> ELSE mq

\* The queue after code outside the store ran: it goes on running, and what
\* it queues comes after everything queued so far.
Yield(m) == Norm(Back(Front(m)))

\* The queue after a microtask of the store ran: if the application is next,
\* what it queues comes after everything queued so far.
Settle(m) == IF m # <<>> /\ Head(m) = UserSlot THEN Norm(Back(m)) ELSE m

\* The queue after an operation returned to the application: the reaction
\* of the application to the promise of the operation comes last.
Return(m) == Settle(Back(m))

\* An initialize() has returned a CorruptionError and none has returned null.
Corrupted ==
  /\ \E p \in DOMAIN pc : op[p] = "init" /\ pc[p] = "done" /\ result[p] = "CorruptionError"
  /\ \A p \in DOMAIN pc : ~(op[p] = "init" /\ pc[p] = "done" /\ result[p] = "null")

\* The record of a call made while the last word of initialize was corruption.
called(record, p) == IF Corrupted THEN record \cup {p} ELSE record

\* Callers are numbered in the order in which they call the store.
IsNextCaller(p) == pc[p] = "idle" /\ \A q \in 1..(p - 1) : pc[q] # "idle"

\* The continuation of requestLock after "await this.lock": it stores a new
\* promise in the slot, whatever the slot holds by now, and returns.
requestLockResume(p, tok, lk) ==
  [lk EXCEPT !.lock = tok, !.held = @ \cup {tok}, !.mq = Append(@, p), !.at = "granted"]

AtLock(o) == CASE o = "sv" -> "sv_lock" [] o = "in" -> "in_lock" [] o = "tx" -> "tx_lock"
AtGranted(o) == CASE o = "sv" -> "sv_granted" [] o = "in" -> "in_granted" [] o = "tx" -> "tx_granted"
At(o, r) == IF r.at = "granted" THEN AtGranted(o) ELSE AtLock(o)
Frame(p) == CASE pc[p] = "sv_lock" -> "sv" [] pc[p] = "in_lock" -> "in" [] pc[p] = "tx_lock" -> "tx"

\* A caller resumes in requestLock once the promise it awaited is resolved.
LockResume(p) ==
  /\ Running(p)
  /\ pc[p] \in {"sv_lock", "in_lock", "tx_lock"}
  /\ LET r == requestLockResume(p, TokenOf(p), Lk(Popped)) IN
       /\ SetLk([r EXCEPT !.mq = Settle(@)])
       /\ pc' = [pc EXCEPT ![p] = AtGranted(Frame(p))]
  /\ UNCHANGED <<op, cur, idx, got, result, errors, cacheVars, uncommitedEvents,
                 subscribers, log, histVars, obsVars, subVars, fileVars, flagVars, viewVars>>

----------------------------------------------------------------------------
\* saveEvent

CallSaveEvent(p) ==
  /\ IsNextCaller(p)
  /\ Open
  /\ LET r == requestLock(p, Token(p, 0), Lk(Entered)) IN
       /\ SetLk([r EXCEPT !.mq = Yield(@)])
       /\ pc' = [pc EXCEPT ![p] = At("sv", r)]
  /\ op' = [op EXCEPT ![p] = "save"]
  /\ cur' = [cur EXCEPT ![p] = Event(p, 0)]
  /\ UNCHANGED <<idx, got, result, errors, cacheVars, uncommitedEvents,
                 subscribers, log, histVars, subVars, fileVars, flagVars, viewVars>>
  /\ calledCorrupted' = called(calledCorrupted, p)

\* saveEvent holds releaseLock and calls options.adapter.save(event).
SaveGranted(p) ==
  /\ Running(p)
  /\ pc[p] = "sv_granted"
  /\ mq' = Yield(Popped)
  /\ pc' = [pc EXCEPT ![p] = "sv_io"]
  /\ handed' = Append(handed, cur[p])
  /\ UNCHANGED <<lockVars, op, cur, idx, got, result, errors, cacheVars,
                 uncommitedEvents, subscribers, log, committed, failed, ncommits,
                 notified, obsVars, subVars, fileVars, flagVars, viewVars>>

\* The adapter appends the event and fulfils the promise of save, or rejects it.
AdapterSave(p, ok) ==
  /\ pc[p] = "sv_io"
  /\ Open
  /\ mq' = Yield(Append(Entered, p))
  /\ pc' = [pc EXCEPT ![p] = IF ok THEN "sv_ok" ELSE "sv_err"]
  /\ log' = IF ok THEN Append(log, cur[p]) ELSE log
  /\ failed' = IF ok THEN failed ELSE failed \cup {p}
  /\ UNCHANGED <<lockVars, op, cur, idx, got, result, errors, cacheVars,
                 uncommitedEvents, subscribers, committed, handed, ncommits, notified, obsVars, subVars, fileVars, flagVars, viewVars>>

\* What a listener does when it is invoked: it returns, it throws, or it
\* calls the unsubscribe function it was given and returns.
Behaviours == {"return", "throw", "unsubscribe"}

\* The listeners that all return.
Quiet == [l \in Listeners |-> "return"]

\* The function subscribe returns: it removes the first element of the array
\* that is the listener, if there is one.
RECURSIVE unsubscribe(_, _)
unsubscribe(subs, newSubscriber) ==
  IF subs = <<>> THEN <<>>
  ELSE IF Head(subs) = newSubscriber THEN Tail(subs)
       ELSE <<Head(subs)>> \o unsubscribe(Tail(subs), newSubscriber)

\* subscribers.forEach(notify => notify()) from index k on: forEach visits
\* the indices below the length n the array had at the start, and skips an
\* index the array no longer has; an exception ends it.
RECURSIVE forEachFrom(_, _, _, _, _)
forEachFrom(subs, k, n, b, invoked) ==
  IF k > n \/ k > Len(subs)
  THEN [subscribers |-> subs, invoked |-> invoked, thrown |-> FALSE]
  ELSE CASE b[subs[k]] = "throw" ->
              [subscribers |-> subs, invoked |-> Append(invoked, subs[k]), thrown |-> TRUE]
         [] b[subs[k]] = "unsubscribe" ->
              forEachFrom(unsubscribe(subs, subs[k]), k + 1, n, b, Append(invoked, subs[k]))
         [] OTHER ->
              forEachFrom(subs, k + 1, n, b, Append(invoked, subs[k]))

forEach(subs, b) == forEachFrom(subs, 1, Len(subs), b, <<>>)

\* saveEvent with the cache updated before adapter.save has settled.
saveEventTryEager(st, evs, subs, event, ok, b) ==
  [state |-> replay(st, event), events |-> Append(evs, event),
   subscribers |-> IF ok THEN forEach(subs, b).subscribers ELSE subs,
   notified |-> IF ok THEN forEach(subs, b).invoked ELSE <<>>,
   result |-> IF ok /\ ~forEach(subs, b).thrown THEN "null" ELSE "Error"]

\* The try block of saveEvent after "await options.adapter.save(event)", and
\* its catch block: the cache, the listeners invoked and the value returned.
saveEventTry(st, evs, subs, event, ok, b) ==
  IF ok
  THEN [state |-> replay(st, event), events |-> Append(evs, event),
        subscribers |-> forEach(subs, b).subscribers,
        notified |-> forEach(subs, b).invoked,
        result |-> IF forEach(subs, b).thrown THEN "Error" ELSE "null"]
  ELSE [state |-> st, events |-> evs, subscribers |-> subs, notified |-> <<>>,
        result |-> "Error"]

\* saveEvent resumes after adapter.save settled, runs its finally block and
\* returns: to its caller, or into the loop of transaction.
SaveSettled(p, b) ==
  /\ Running(p)
  /\ pc[p] \in {"sv_ok", "sv_err"}
  /\ LET r == saveEventTry(state, events, subscribers, cur[p], pc[p] = "sv_ok", b)
         lk == releaseLock(TokenOf(p), Lk(Popped))
     IN /\ state' = r.state
        /\ events' = r.events
        /\ subscribers' = r.subscribers
        /\ notified' = [notified EXCEPT ![p] = @ \o r.notified]
        /\ IF op[p] = "save"
           THEN /\ SetLk([lk EXCEPT !.mq = Return(@)])
                /\ result' = [result EXCEPT ![p] = r.result]
                /\ pc' = [pc EXCEPT ![p] = "done"]
           ELSE /\ SetLk([lk EXCEPT !.mq = Settle(Append(@, p))])
                /\ result' = result
                /\ pc' = [pc EXCEPT ![p] = "tx_saved"]
  /\ UNCHANGED <<op, cur, idx, got, errors, uncommitedEvents, log,
                 committed, handed, failed, ncommits, obsVars, subVars, fileVars, flagVars, viewVars>>

----------------------------------------------------------------------------
\* initialize

CallInitialize(p) ==
  /\ IsNextCaller(p)
  /\ Open
  /\ LET r == requestLock(p, Token(p, 0), Lk(Entered)) IN
       /\ SetLk([r EXCEPT !.mq = Yield(@)])
       /\ pc' = [pc EXCEPT ![p] = At("in", r)]
  /\ op' = [op EXCEPT ![p] = "init"]
  /\ UNCHANGED <<cur, idx, got, result, errors, cacheVars, uncommitedEvents,
                 subscribers, log, histVars, subVars, fileVars, flagVars, viewVars>>
  /\ calledCorrupted' = called(calledCorrupted, p)

\* initialize holds releaseLock and calls options.adapter.retrieve().
InitGranted(p) ==
  /\ Running(p)
  /\ pc[p] = "in_granted"
  /\ mq' = Yield(Popped)
  /\ pc' = [pc EXCEPT ![p] = "in_io"]
  /\ UNCHANGED <<lockVars, op, cur, idx, got, result, errors, cacheVars,
                 uncommitedEvents, subscribers, log, histVars, obsVars, subVars, fileVars, flagVars, viewVars>>

\* The adapter returns the records persisted so far, or rejects.
AdapterRetrieve(p, ok) ==
  /\ pc[p] = "in_io"
  /\ Open
  /\ mq' = Yield(Append(Entered, p))
  /\ pc' = [pc EXCEPT ![p] = IF ok THEN "in_got" ELSE "in_err"]
  /\ got' = [got EXCEPT ![p] = IF ok THEN log ELSE <<>>]
  /\ UNCHANGED <<lockVars, op, cur, idx, result, errors, cacheVars,
                 uncommitedEvents, subscribers, log, histVars, obsVars, subVars, fileVars, flagVars, viewVars>>

\* The for-of loop of initialize over receivedEvents, from record i on.
RECURSIVE initializeLoop(_, _, _, _, _)
initializeLoop(receivedEvents, i, st, evs, parsedEvents) ==
  IF i > Len(receivedEvents)
  THEN [state |-> st, events |-> parsedEvents, result |-> "null", errors |-> 0]
  ELSE IF parser(receivedEvents[i]).isError
       THEN [state |-> st, events |-> evs, result |-> "CorruptionError", errors |-> 1]
       ELSE initializeLoop(receivedEvents, i + 1,
                           replay(st, parser(receivedEvents[i]).value), evs,
                           Append(parsedEvents, parser(receivedEvents[i]).value))

\* The try block of initialize after "await options.adapter.retrieve()", and
\* its catch block when retrieve rejected.
initializeTry(st, evs, receivedEvents, ok) ==
  IF ok
  THEN initializeLoop(receivedEvents, 1, st, evs, <<>>)
  ELSE [state |-> st, events |-> evs, result |-> "CorruptionError", errors |-> 1]

\* The contents of array a as long as a caller of getEvents() has it; an
\* array nothing refers to any more is gone.
Kept(a, contents) ==
  IF \E q \in DOMAIN obtained : obtained[q] # Null /\ obtained[q][1] = a THEN contents
  ELSE Null

\* "events = parsedEvents" of initialize puts a new array into let events.
InitSettled(p) ==
  /\ Running(p)
  /\ pc[p] \in {"in_got", "in_err"}
  /\ LET r == initializeTry(state, events, got[p], pc[p] = "in_got") IN
       /\ state' = r.state
       /\ events' = r.events
       /\ result' = [result EXCEPT ![p] = r.result]
       /\ errors' = [errors EXCEPT ![p] = r.errors]
       /\ eventsArray' = IF r.result = "null" THEN eventsArray + 1 ELSE eventsArray
       /\ retired' = IF r.result = "null" THEN Append(retired, Kept(eventsArray, events))
                     ELSE retired
  /\ LET lk == releaseLock(Token(p, 0), Lk(Popped)) IN SetLk([lk EXCEPT !.mq = Return(@)])
  /\ pc' = [pc EXCEPT ![p] = "done"]
  /\ UNCHANGED <<op, cur, idx, got, uncommitedEvents, subscribers, log, histVars, obsVars, subVars, fileVars, flagVars, obtained>>

----------------------------------------------------------------------------
\* getEvents

\* getEvents() returns the array let events refers to, not a copy of it.
GetEvents(p) ==
  /\ IsNextCaller(p)
  /\ Open
  /\ op' = [op EXCEPT ![p] = "events"]
  /\ obtained' = [obtained EXCEPT ![p] = <<eventsArray, events>>]
  /\ pc' = [pc EXCEPT ![p] = "done"]
  /\ mq' = Yield(Entered)
  /\ UNCHANGED <<lockVars, cur, idx, got, result, errors, cacheVars, uncommitedEvents,
                 subscribers, log, histVars, obsVars, subVars, fileVars, flagVars,
                 eventsArray, retired>>

\* What array a holds now: events.push(event) of saveEvent changes the
\* array let events refers to.
Contents(a) == IF a = eventsArray THEN events ELSE retired[a]

----------------------------------------------------------------------------
\* subscribe

subscribe(subs, newSubscriber) == Append(subs, newSubscriber)

\* The application calls subscribe(listener).
Subscribe(l) ==
  /\ Open
  /\ Len(registered) < MaxSubscriptions
  /\ subscribers' = subscribe(subscribers, l)
  /\ registered' = Append(registered, l)
  /\ calls' = Append(calls, 0)
  /\ UNCHANGED <<lockVars, mq, pc, op, cur, idx, got, result, errors, cacheVars,
                 uncommitedEvents, log, histVars, obsVars, fileVars, flagVars, viewVars>>

\* The application subscribes one listener, once.
SubscribeOnce ==
  /\ registered = <<>>
  /\ Subscribe(CHOOSE l \in Listeners : TRUE)

\* The application calls the function the i-th subscribe() returned.
Unsubscribe(i) ==
  /\ Open
  /\ i \in 1..Len(registered)
  /\ calls[i] < MaxUnsubscribeCalls
  /\ subscribers' = unsubscribe(subscribers, registered[i])
  /\ calls' = [calls EXCEPT ![i] = @ + 1]
  /\ UNCHANGED <<lockVars, mq, pc, op, cur, idx, got, result, errors, cacheVars,
                 uncommitedEvents, log, histVars, obsVars, registered, fileVars, flagVars, viewVars>>

----------------------------------------------------------------------------
\* transaction

CallTransaction(p) ==
  /\ IsNextCaller(p)
  /\ Open
  /\ LET r == requestLock(p, Token(p, 0), Lk(Entered)) IN
       /\ SetLk([r EXCEPT !.mq = Yield(@)])
       /\ pc' = [pc EXCEPT ![p] = At("tx", r)]
  /\ op' = [op EXCEPT ![p] = "tx"]
  /\ UNCHANGED <<cur, idx, got, result, errors, cacheVars, uncommitedEvents,
                 subscribers, log, histVars, subVars, fileVars, flagVars, viewVars>>
  /\ calledCorrupted' = called(calledCorrupted, p)

\* transaction holds releaseLock and calls the callback.
TxGranted(p) ==
  /\ Running(p)
  /\ pc[p] = "tx_granted"
  /\ mq' = Yield(Popped)
  /\ pc' = [pc EXCEPT ![p] = "tx_body"]
  /\ UNCHANGED <<lockVars, op, cur, idx, got, result, errors, cacheVars,
                 uncommitedEvents, subscribers, log, histVars, obsVars, subVars, fileVars, flagVars, viewVars>>

commit(buf, event) == Append(buf, event)

rollback(buf) == <<>>

\* The callback calls commit(event).
BodyCommit(p) ==
  /\ pc[p] = "tx_body"
  /\ Open
  /\ ncommits[p] < MaxCommits
  /\ uncommitedEvents' = commit(uncommitedEvents, Event(p, ncommits[p] + 1))
  /\ committed' = [committed EXCEPT ![p] = Append(@, Event(p, ncommits[p] + 1))]
  /\ ncommits' = [ncommits EXCEPT ![p] = @ + 1]
  /\ UNCHANGED <<lockVars, mq, pc, op, cur, idx, got, result, errors, cacheVars,
                 subscribers, log, handed, failed, notified, obsVars, subVars, fileVars, flagVars, viewVars>>

\* The callback calls rollback() (on an empty buffer the call changes nothing).
BodyRollback(p) ==
  /\ pc[p] = "tx_body"
  /\ Open
  /\ uncommitedEvents # <<>>
  /\ uncommitedEvents' = rollback(uncommitedEvents)
  /\ committed' = [committed EXCEPT ![p] = <<>>]
  /\ UNCHANGED <<lockVars, mq, pc, op, cur, idx, got, result, errors, cacheVars,
                 subscribers, log, handed, failed, ncommits, notified, obsVars, subVars, fileVars, flagVars, viewVars>>

\* The promise of the callback is fulfilled (thrown = FALSE) or rejected.
BodySettled(p, thrown) ==
  /\ pc[p] = "tx_body"
  /\ Open
  /\ mq' = Yield(Append(Entered, p))
  /\ pc' = [pc EXCEPT ![p] = IF thrown THEN "tx_catch" ELSE "tx_loop"]
  /\ UNCHANGED <<lockVars, op, cur, idx, got, result, errors, cacheVars,
                 uncommitedEvents, subscribers, log, histVars, obsVars, subVars, fileVars, flagVars, viewVars>>

\* uncommitedEvents.splice(0, 1)
splice(buf) == IF buf = <<>> THEN <<>> ELSE Tail(buf)

\* One step of "for (const uncommitedEvent of uncommitedEvents)": the array
\* iterator at index i reads the array as it is now.
transactionLoop(buf, i) ==
  IF i < Len(buf) THEN [more |-> TRUE, event |-> buf[i + 1]]
  ELSE [more |-> FALSE, event |-> Null]

\* transaction resumes after the callback returned, or after one of its
\* saveEvent calls returned: it calls saveEvent on the next element, or
\* leaves the loop, releases the lock and returns null.
TxLoop(p) ==
  /\ Running(p)
  /\ pc[p] \in {"tx_loop", "tx_saved"}
  /\ LET buf == IF pc[p] = "tx_saved" THEN splice(uncommitedEvents) ELSE uncommitedEvents
         i == IF pc[p] = "tx_saved" THEN idx[p] + 1 ELSE 0
         step == transactionLoop(buf, i)
     IN /\ uncommitedEvents' = buf
        /\ idx' = [idx EXCEPT ![p] = i]
        /\ IF step.more
           THEN LET r == requestLock(p, Token(p, i + 1), Lk(Popped)) IN
                  /\ SetLk([r EXCEPT !.mq = Settle(@)])
                  /\ pc' = [pc EXCEPT ![p] = At("sv", r)]
                  /\ cur' = [cur EXCEPT ![p] = step.event]
                  /\ result' = result
           ELSE /\ LET lk == releaseLock(Token(p, 0), Lk(Popped)) IN
                     SetLk([lk EXCEPT !.mq = Return(@)])
                /\ pc' = [pc EXCEPT ![p] = "done"]
                /\ cur' = cur
                /\ result' = [result EXCEPT ![p] = "null"]
  /\ UNCHANGED <<op, got, errors, cacheVars, subscribers, log, histVars, obsVars, subVars, fileVars, flagVars, viewVars>>

\* A catch block of transaction that returns with no finally block after it.
TxCatchKeepsLock(p) ==
  /\ Running(p)
  /\ pc[p] = "tx_catch"
  /\ uncommitedEvents' = rollback(uncommitedEvents)
  /\ result' = [result EXCEPT ![p] = "TransactionError"]
  /\ mq' = Return(Popped)
  /\ pc' = [pc EXCEPT ![p] = "done"]
  /\ UNCHANGED <<lockVars, op, cur, idx, got, errors, cacheVars, subscribers, log, histVars,
                 obsVars, subVars, fileVars, flagVars, viewVars>>

\* The catch block of transaction: the callback threw.
TxCatch(p) ==
  /\ Running(p)
  /\ pc[p] = "tx_catch"
  /\ uncommitedEvents' = rollback(uncommitedEvents)
  /\ result' = [result EXCEPT ![p] = "TransactionError"]
  /\ LET lk == releaseLock(Token(p, 0), Lk(Popped)) IN SetLk([lk EXCEPT !.mq = Return(@)])
  /\ pc' = [pc EXCEPT ![p] = "done"]
  /\ UNCHANGED <<op, cur, idx, got, errors, cacheVars, subscribers, log, histVars, obsVars, subVars, fileVars, flagVars, viewVars>>

----------------------------------------------------------------------------
\* The application saves events and runs transactions over a log it has
\* persisted nothing to yet.
Next ==
  \/ \E p \in Procs : CallSaveEvent(p)
  \/ \E p \in Procs : CallTransaction(p)
  \/ \E p \in Procs : LockResume(p)
  \/ \E p \in Procs : SaveGranted(p)
  \/ \E p \in Procs, ok \in BOOLEAN : AdapterSave(p, ok)
  \/ \E p \in Procs : SaveSettled(p, Quiet)
  \/ \E p \in Procs : TxGranted(p)
  \/ \E p \in Procs : BodyCommit(p)
  \/ \E p \in Procs : BodyRollback(p)
  \/ \E p \in Procs, thrown \in BOOLEAN : BodySettled(p, thrown)
  \/ \E p \in Procs : TxLoop(p)
  \/ \E p \in Procs : TxCatch(p)
  \/ SubscribeOnce

Spec == Init /\ [][Next]_vars

\* The application initializes the store over a log persisted earlier, and
\* saves events.
NextReopened ==
  \/ \E p \in Procs : CallInitialize(p)
  \/ \E p \in Procs : CallSaveEvent(p)
  \/ \E p \in Procs : LockResume(p)
  \/ \E p \in Procs : InitGranted(p)
  \/ \E p \in Procs, ok \in BOOLEAN : AdapterRetrieve(p, ok)
  \/ \E p \in Procs : InitSettled(p)
  \/ \E p \in Procs : SaveGranted(p)
  \/ \E p \in Procs, ok \in BOOLEAN : AdapterSave(p, ok)
  \/ \E p \in Procs : SaveSettled(p, Quiet)
  \/ SubscribeOnce

SpecReopened == InitReopened /\ [][NextReopened]_vars

\* The application initializes the store, saves events and reads the list
\* of events with getEvents().
NextViews ==
  \/ \E p \in Procs : CallInitialize(p)
  \/ \E p \in Procs : CallSaveEvent(p)
  \/ \E p \in Procs : GetEvents(p)
  \/ \E p \in Procs : LockResume(p)
  \/ \E p \in Procs : InitGranted(p)
  \/ \E p \in Procs, ok \in BOOLEAN : AdapterRetrieve(p, ok)
  \/ \E p \in Procs : InitSettled(p)
  \/ \E p \in Procs : SaveGranted(p)
  \/ \E p \in Procs, ok \in BOOLEAN : AdapterSave(p, ok)
  \/ \E p \in Procs : SaveSettled(p, Quiet)

SpecViews == InitReopened /\ [][NextViews]_vars

\* The application only saves events, from NumSavers call sites.
NextLock ==
  \/ \E p \in Savers : CallSaveEvent(p)
  \/ \E p \in Savers : LockResume(p)
  \/ \E p \in Savers : SaveGranted(p)
  \/ \E p \in Savers, ok \in BOOLEAN : AdapterSave(p, ok)
  \/ \E p \in Savers : SaveSettled(p, Quiet)

\* A store created for the callers of Savers over an empty log.
InitLock == Created(Savers) /\ log = <<>> /\ NoFiles

SpecLock == InitLock /\ [][NextLock]_vars

\* What the event loop does on its own: it runs the microtasks queued and
\* completes the file operations started.
LockProgress ==
  \E p \in Savers :
    \/ LockResume(p)
    \/ SaveGranted(p)
    \/ \E ok \in BOOLEAN : AdapterSave(p, ok)
    \/ SaveSettled(p, Quiet)

\* The callers of Savers with an event loop that never stops while it has
\* something to do.
SpecLockFair == InitLock /\ [][NextLock]_vars /\ WF_vars(LockProgress)

\* The application only saves events; it subscribes and unsubscribes any
\* listener at any time, and a listener may throw or unsubscribe itself.
NextNotify ==
  \/ \E p \in Procs : CallSaveEvent(p)
  \/ \E p \in Procs : LockResume(p)
  \/ \E p \in Procs : SaveGranted(p)
  \/ \E p \in Procs, ok \in BOOLEAN : AdapterSave(p, ok)
  \/ \E p \in Procs, b \in [Listeners -> Behaviours] : SaveSettled(p, b)
  \/ \E l \in Listeners : Subscribe(l)
  \/ \E i \in 1..MaxSubscriptions : Unsubscribe(i)

SpecNotify == Init /\ [][NextNotify]_vars

\* options.replay throws in saveEvent: the catch block returns the error,
\* the cache and the listeners are left alone, the finally block runs.
SaveReducerThrew(p) ==
  /\ Running(p)
  /\ pc[p] = "sv_ok"
  /\ LET lk == releaseLock(TokenOf(p), Lk(Popped)) IN
       IF op[p] = "save"
       THEN /\ SetLk([lk EXCEPT !.mq = Return(@)])
            /\ result' = [result EXCEPT ![p] = "Error"]
            /\ pc' = [pc EXCEPT ![p] = "done"]
       ELSE /\ SetLk([lk EXCEPT !.mq = Settle(Append(@, p))])
            /\ result' = result
            /\ pc' = [pc EXCEPT ![p] = "tx_saved"]
  /\ UNCHANGED <<op, cur, idx, got, errors, cacheVars, uncommitedEvents, subscribers, log,
                 histVars, obsVars, subVars, fileVars, flagVars, viewVars>>

\* options.replay throws in the loop of initialize at record i, the records
\* before it folded into state: the catch block returns a CorruptionError,
\* the finally block runs.
InitReducerThrew(p, i) ==
  /\ Running(p)
  /\ pc[p] = "in_got"
  /\ i \in 1..Len(got[p])
  /\ \A k \in 1..i : ~parser(got[p][k]).isError
  /\ state' = initializeLoop(SubSeq(got[p], 1, i - 1), 1, state, events, <<>>).state
  /\ result' = [result EXCEPT ![p] = "CorruptionError"]
  /\ errors' = [errors EXCEPT ![p] = 1]
  /\ LET lk == releaseLock(Token(p, 0), Lk(Popped)) IN SetLk([lk EXCEPT !.mq = Return(@)])
  /\ pc' = [pc EXCEPT ![p] = "done"]
  /\ UNCHANGED <<op, cur, idx, got, events, uncommitedEvents, subscribers, log, histVars,
                 obsVars, subVars, fileVars, flagVars, viewVars>>

\* The application initializes the store over a log persisted earlier, saves
\* events and runs transactions; the adapter, the parser, the reducer, the
\* listener and the callback may each fail.
NextExits ==
  \/ \E p \in Procs : CallInitialize(p)
  \/ \E p \in Procs : CallSaveEvent(p)
  \/ \E p \in Procs : CallTransaction(p)
  \/ \E p \in Procs : LockResume(p)
  \/ \E p \in Procs : InitGranted(p)
  \/ \E p \in Procs, ok \in BOOLEAN : AdapterRetrieve(p, ok)
  \/ \E p \in Procs : InitSettled(p)
  \/ \E p \in Procs, i \in 1..MaxInitLen : InitReducerThrew(p, i)
  \/ \E p \in Procs : SaveGranted(p)
  \/ \E p \in Procs, ok \in BOOLEAN : AdapterSave(p, ok)
  \/ \E p \in Procs, b \in [Listeners -> {"return", "throw"}] : SaveSettled(p, b)
  \/ \E p \in Procs : SaveReducerThrew(p)
  \/ \E p \in Procs : TxGranted(p)
  \/ \E p \in Procs : BodyCommit(p)
  \/ \E p \in Procs, thrown \in BOOLEAN : BodySettled(p, thrown)
  \/ \E p \in Procs : TxLoop(p)
  \/ \E p \in Procs : TxCatch(p)
  \/ SubscribeOnce

SpecExits == InitReopened /\ [][NextExits]_vars

----------------------------------------------------------------------------
\* createEventDatabase over JsonStreamEventAdapter (src/package/index.ts)

\* The event takeSnapshot builds (its date and identifier are left out).
SnapshotEvent(data) == <<-2, data>>

IsSnapshot(event) == event[1] = -2

\* A reducer that keeps a SNAPSHOT event like any other event.
snapshotReplayKeeps(st, event) == Append(st, event)

\* options.replay of a reducer that takes a SNAPSHOT event as the new state.
snapshotReplay(st, event) == IF IsSnapshot(event) THEN event[2] ELSE Append(st, event)

\* events.reduce(options.replay, options.initialState) of getState
RECURSIVE reduce(_, _)
reduce(evs, st) == IF evs = <<>> THEN st ELSE reduce(Tail(evs), snapshotReplay(st, Head(evs)))

IsSpace(char) == char[1] = "LF"

\* The regular expression /,(?=\s*])/m: the commas of text that only white
\* space separates from a right bracket.
Matches(text) ==
  {i \in 1..Len(text) :
     /\ text[i][1] = ","
     /\ \E j \in (i + 1)..Len(text) :
          /\ text[j][1] = "]"
          /\ \A k \in (i + 1)..(j - 1) : IsSpace(text[k])}

\* text.replace(/,(?=\s*])/m, ""): the first match is removed.
replace(text) ==
  IF Matches(text) = {} THEN text
  ELSE LET i == CHOOSE m \in Matches(text) : \A n \in Matches(text) : m <= n
       IN SubSeq(text, 1, i - 1) \o SubSeq(text, i + 1, Len(text))

\* The tokens JSON.parse reads: the pieces of a value with a string are read
\* as one value, whatever the string holds.
RECURSIVE tokens(_)
tokens(chars) ==
  IF chars = <<>> THEN <<>>
  ELSE IF Head(chars)[1] # "json-" THEN <<Head(chars)>> \o tokens(Tail(chars))
  ELSE IF /\ Len(chars) >= 4
          /\ chars[2] = CommaInString
          /\ chars[3] = BracketInString
          /\ chars[4][1] = "-json"
       THEN <<<<"json", chars[1][2]>>>> \o tokens(SubSeq(chars, 5, Len(chars)))
  ELSE IF /\ Len(chars) >= 3
          /\ chars[2] = BracketInString
          /\ chars[3][1] = "-json"
       THEN <<<<"json", WithoutComma(chars[1][2])>>>> \o tokens(SubSeq(chars, 4, Len(chars)))
  ELSE <<<<"syntax error", <<>>>>>>

\* JSON.parse of a text that should be an array: white space is skipped,
\* values are separated by single commas.
JSONparse(text) ==
  LET chars == tokens(SelectSeq(text, LAMBDA c : ~IsSpace(c)))
      inner == SubSeq(chars, 2, Len(chars) - 1)
      ok == /\ Len(chars) >= 2
            /\ chars[1][1] = "["
            /\ chars[Len(chars)][1] = "]"
            /\ \/ inner = <<>>
               \/ /\ Len(inner) % 2 = 1
                  /\ \A i \in 1..Len(inner) :
                       inner[i][1] = (IF i % 2 = 1 THEN "json" ELSE ",")
  IN [ok |-> ok,
      value |-> IF ok THEN [i \in 1..((Len(inner) + 1) \div 2) |-> inner[2 * i - 1][2]]
                ELSE <<>>]

\* eventSchema accepts the events of the application, snapshotSchema the
\* snapshot events; a Malformed record passes neither.
safeParse(record) == [success |-> record[1] # -1, data |-> record]

\* retrieveEvents: the validated values of the file at path.events, or a
\* thrown Error.
retrieveEvents(text) ==
  LET json == JSONparse(replace(text \o <<RightBracket>>))
      ok == json.ok /\ \A i \in 1..Len(json.value) : safeParse(json.value[i]).success
  IN [ok |-> ok,
      value |-> IF ok THEN [i \in 1..Len(json.value) |-> safeParse(json.value[i]).data]
                ELSE <<>>]

\* The file at path.events after save has appended the records of recs to
\* an empty file.
RECURSIVE saved(_)
saved(recs) ==
  IF recs = <<>> THEN emptyFile
  ELSE saved(SubSeq(recs, 1, Len(recs) - 1)) \o stringify(recs[Len(recs)]) \o <<Comma, LineFeed>>

\* events.map(event => JSON.stringify(event) + ",").join("\n") of archive
RECURSIVE serializedEvents(_)
serializedEvents(evs) ==
  IF evs = <<>> THEN <<>>
  ELSE IF Len(evs) = 1 THEN stringify(evs[1]) \o <<Comma>>
       ELSE stringify(evs[1]) \o <<Comma, LineFeed>> \o serializedEvents(Tail(evs))

\* acquireLock of createLock, up to its first suspension.
acquireLock(p, tok, lk) ==
  IF lk.lock = Null
  THEN [lk EXCEPT !.lock = tok, !.held = @ \cup {tok}, !.mq = Append(@, p), !.at = "granted"]
  ELSE IF lk.lock \in lk.resolved
       THEN [lk EXCEPT !.mq = Append(@, p), !.at = "lock"]
       ELSE [lk EXCEPT !.waitq = Append(@, <<p, lk.lock>>), !.at = "lock"]

\* acquireLock after "await lock": a new promise goes into the slot.
acquireLockResume(p, tok, lk) ==
  [lk EXCEPT !.lock = tok, !.held = @ \cup {tok}, !.mq = Append(@, p), !.at = "granted"]

\* releaseLock of createLock: release(); lock = null.
createLockRelease(tok, lk) == [releaseLock(tok, lk) EXCEPT !.lock = Null]

\* The promise the acquireLock call of caller p creates: takeSnapshot
\* acquires the lock once in retrieve and once in archive.
LockOf(p) ==
  IF pc[p] \in {"da_lock", "da_granted", "da_io", "da_read", "da_io2", "da_appended",
                "da_io3", "da_written"}
  THEN Token(p, 1) ELSE Token(p, 0)

storeVars == <<idx, errors, state, events, uncommitedEvents, subscribers, log, histVars,
               obsVars, subVars>>

\* saveEvent(event): eventAdapter.save(event) asks for the lock.
CallDatabaseSaveEvent(p) ==
  /\ IsNextCaller(p)
  /\ Open
  /\ LET r == acquireLock(p, Token(p, 0), Lk(Entered)) IN
       /\ SetLk([r EXCEPT !.mq = Yield(@)])
       /\ pc' = [pc EXCEPT ![p] = IF r.at = "granted" THEN "ds_granted" ELSE "ds_lock"]
  /\ op' = [op EXCEPT ![p] = "dbsave"]
  /\ cur' = [cur EXCEPT ![p] = Event(p, 0)]
  /\ UNCHANGED <<got, result, storeVars, fileVars, flagVars, viewVars>>

\* takeSnapshot(): getState() calls eventAdapter.retrieve(), which asks for the lock.
CallTakeSnapshot(p) ==
  /\ IsNextCaller(p)
  /\ Open
  /\ LET r == acquireLock(p, Token(p, 0), Lk(Entered)) IN
       /\ SetLk([r EXCEPT !.mq = Yield(@)])
       /\ pc' = [pc EXCEPT ![p] = IF r.at = "granted" THEN "dr_granted" ELSE "dr_lock"]
  /\ op' = [op EXCEPT ![p] = "snapshot"]
  /\ UNCHANGED <<cur, got, result, storeVars, fileVars, flagVars, viewVars>>

\* A caller resumes in acquireLock once the promise it awaited is resolved.
AcquireResume(p) ==
  /\ Running(p)
  /\ pc[p] \in {"ds_lock", "dr_lock", "da_lock"}
  /\ LET r == acquireLockResume(p, LockOf(p), Lk(Popped)) IN
       SetLk([r EXCEPT !.mq = Settle(@)])
  /\ pc' = [pc EXCEPT ![p] = CASE pc[p] = "ds_lock" -> "ds_granted"
                               [] pc[p] = "dr_lock" -> "dr_granted"
                               [] pc[p] = "da_lock" -> "da_granted"]
  /\ UNCHANGED <<op, cur, got, result, storeVars, fileVars, flagVars, viewVars>>

\* save, retrieve and archive hold the lock and start their first file
\* operation: appendFile for save, readFile for the other two.
FileOperationStarts(p) ==
  /\ Running(p)
  /\ pc[p] \in {"ds_granted", "dr_granted", "da_granted"}
  /\ mq' = Settle(Popped)
  /\ pc' = [pc EXCEPT ![p] = CASE pc[p] = "ds_granted" -> "ds_io"
                               [] pc[p] = "dr_granted" -> "dr_io"
                               [] pc[p] = "da_granted" -> "da_io"]
  /\ UNCHANGED <<lockVars, op, cur, got, result, storeVars, fileVars, flagVars, viewVars>>

\* appendFile(eventsPath, JSON.stringify(event) + ",\n") completes, or fails.
AppendFileDone(p, ok) ==
  /\ pc[p] = "ds_io"
  /\ mq = <<>>
  /\ mq' = <<p>>
  /\ pc' = [pc EXCEPT ![p] = IF ok THEN "ds_appended" ELSE "ds_threw"]
  /\ eventsFile' = IF ok THEN eventsFile \o stringify(cur[p]) \o <<Comma, LineFeed>>
                   ELSE eventsFile
  /\ appended' = IF ok THEN Append(appended, cur[p]) ELSE appended
  /\ UNCHANGED <<lockVars, op, cur, got, result, storeVars, archiveFile, webVars, flagVars, viewVars>>

\* save after its await: releaseLock() and return; a rejected appendFile
\* leaves save before it reaches releaseLock().
DatabaseSaveSettled(p) ==
  /\ Running(p)
  /\ pc[p] \in {"ds_appended", "ds_threw"}
  /\ LET lk == IF pc[p] = "ds_appended" THEN createLockRelease(Token(p, 0), Lk(Popped))
               ELSE Lk(Popped)
     IN SetLk([lk EXCEPT !.mq = Return(@)])
  /\ result' = [result EXCEPT ![p] = IF pc[p] = "ds_appended" THEN "null" ELSE "Error"]
  /\ pc' = [pc EXCEPT ![p] = "done"]
  /\ UNCHANGED <<op, cur, got, storeVars, fileVars, flagVars, viewVars>>

\* readFile(eventsPath) completes and retrieveEvents parses what it read.
ReadFileDone(p) ==
  /\ pc[p] \in {"dr_io", "da_io"}
  /\ mq = <<>>
  /\ mq' = <<p>>
  /\ got' = [got EXCEPT ![p] = retrieveEvents(eventsFile).value]
  /\ pc' = [pc EXCEPT ![p] = IF ~retrieveEvents(eventsFile).ok THEN "dr_threw"
                             ELSE IF pc[p] = "dr_io" THEN "dr_read" ELSE "da_read"]
  /\ UNCHANGED <<lockVars, op, cur, result, storeVars, fileVars, flagVars, viewVars>>

\* retrieveEvents threw: retrieve or archive ends before its releaseLock().
RetrieveThrew(p) ==
  /\ Running(p)
  /\ pc[p] = "dr_threw"
  /\ mq' = Return(Popped)
  /\ result' = [result EXCEPT ![p] = "Error"]
  /\ pc' = [pc EXCEPT ![p] = "done"]
  /\ UNCHANGED <<lockVars, op, cur, got, storeVars, fileVars, flagVars, viewVars>>

\* retrieve after its await: releaseLock() and return events to getState.
RetrieveSettled(p) ==
  /\ Running(p)
  /\ pc[p] = "dr_read"
  /\ LET lk == createLockRelease(Token(p, 0), Lk(Popped)) IN
       SetLk([lk EXCEPT !.mq = Settle(Append(@, p))])
  /\ pc' = [pc EXCEPT ![p] = "dg_state"]
  /\ UNCHANGED <<op, cur, got, result, storeVars, fileVars, flagVars, viewVars>>

\* getState folds the events and returns the state to takeSnapshot.
GetStateSettled(p) ==
  /\ Running(p)
  /\ pc[p] = "dg_state"
  /\ cur' = [cur EXCEPT ![p] = SnapshotEvent(reduce(got[p], initialState))]
  /\ mq' = Settle(Append(Popped, p))
  /\ pc' = [pc EXCEPT ![p] = "dt_snap"]
  /\ UNCHANGED <<lockVars, op, got, result, storeVars, fileVars, flagVars, viewVars>>

\* takeSnapshot has built the snapshot event and calls eventAdapter.archive,
\* which asks for the lock.
ArchiveCalled(p) ==
  /\ Running(p)
  /\ pc[p] = "dt_snap"
  /\ LET r == acquireLock(p, Token(p, 1), Lk(Popped)) IN
       /\ SetLk([r EXCEPT !.mq = Settle(@)])
       /\ pc' = [pc EXCEPT ![p] = IF r.at = "granted" THEN "da_granted" ELSE "da_lock"]
  /\ UNCHANGED <<op, cur, got, result, storeVars, fileVars, flagVars, viewVars>>

\* archive has the events and starts appendFile(archivePath, serializedEvents);
\* later it starts writeFile(eventsPath, ...).
ArchiveContinues(p) ==
  /\ Running(p)
  /\ pc[p] \in {"da_read", "da_appended"}
  /\ mq' = Settle(Popped)
  /\ pc' = [pc EXCEPT ![p] = IF pc[p] = "da_read" THEN "da_io2" ELSE "da_io3"]
  /\ UNCHANGED <<lockVars, op, cur, got, result, storeVars, fileVars, flagVars, viewVars>>

\* archive goes on to its writeFile although nothing has reached the archive file.
ArchiveAppendLost(p) ==
  /\ pc[p] = "da_io2"
  /\ mq = <<>>
  /\ mq' = <<p>>
  /\ archiveFile' = archiveFile
  /\ pc' = [pc EXCEPT ![p] = "da_appended"]
  /\ UNCHANGED <<lockVars, op, cur, got, result, storeVars, eventsFile, appended, webVars, flagVars, viewVars>>

\* appendFile(archivePath, serializedEvents) completes.
ArchiveAppendDone(p) ==
  /\ pc[p] = "da_io2"
  /\ mq = <<>>
  /\ mq' = <<p>>
  /\ archiveFile' = archiveFile \o serializedEvents(got[p])
  /\ pc' = [pc EXCEPT ![p] = "da_appended"]
  /\ UNCHANGED <<lockVars, op, cur, got, result, storeVars, eventsFile, appended, webVars, flagVars, viewVars>>

\* writeFile(eventsPath, "[\n" + JSON.stringify(snapshotEvent) + ",") completes.
ArchiveWriteDone(p) ==
  /\ pc[p] = "da_io3"
  /\ mq = <<>>
  /\ mq' = <<p>>
  /\ eventsFile' = <<LeftBracket, LineFeed>> \o stringify(cur[p]) \o <<Comma>>
  /\ pc' = [pc EXCEPT ![p] = "da_written"]
  /\ UNCHANGED <<lockVars, op, cur, got, result, storeVars, archiveFile, appended, webVars, flagVars, viewVars>>

\* archive after its last await: releaseLock(); takeSnapshot returns.
ArchiveSettled(p) ==
  /\ Running(p)
  /\ pc[p] = "da_written"
  /\ LET lk == createLockRelease(Token(p, 1), Lk(Popped)) IN
       SetLk([lk EXCEPT !.mq = Return(@)])
  /\ result' = [result EXCEPT ![p] = "null"]
  /\ pc' = [pc EXCEPT ![p] = "done"]
  /\ UNCHANGED <<op, cur, got, storeVars, fileVars, flagVars, viewVars>>

\* The application saves events and takes snapshots of an event database.
NextDatabase ==
  \/ \E p \in Procs : CallDatabaseSaveEvent(p)
  \/ \E p \in Procs : CallTakeSnapshot(p)
  \/ \E p \in Procs : AcquireResume(p)
  \/ \E p \in Procs : FileOperationStarts(p)
  \/ \E p \in Procs, ok \in BOOLEAN : AppendFileDone(p, ok)
  \/ \E p \in Procs : DatabaseSaveSettled(p)
  \/ \E p \in Procs : ReadFileDone(p)
  \/ \E p \in Procs : RetrieveThrew(p)
  \/ \E p \in Procs : RetrieveSettled(p)
  \/ \E p \in Procs : GetStateSettled(p)
  \/ \E p \in Procs : ArchiveCalled(p)
  \/ \E p \in Procs : ArchiveContinues(p)
  \/ \E p \in Procs : ArchiveAppendDone(p)
  \/ \E p \in Procs : ArchiveWriteDone(p)
  \/ \E p \in Procs : ArchiveSettled(p)

\* An event database created over the files an earlier run has left.
InitDatabase ==
  /\ Constructed
  /\ log = <<>>
  /\ archiveFile = emptyFile
  /\ item = Null
  /\ stored = <<>>
  /\ \E recs \in InitLogs : eventsFile = saved(recs) /\ appended = recs

SpecDatabase == InitDatabase /\ [][NextDatabase]_vars

\* No call is in progress: the application awaits each call before the next.
Settled == \A q \in Procs : pc[q] \in {"idle", "done"}

\* The application awaits each saveEvent and takeSnapshot before it makes the
\* next call. The lock is then free at every acquireLock unless a failed
\* appendFile left it taken for good, so no caller ever resumes in acquireLock.
NextSnapshot ==
  \/ \E p \in Procs : Settled /\ CallDatabaseSaveEvent(p)
  \/ \E p \in Procs : Settled /\ CallTakeSnapshot(p)
  \/ \E p \in Procs : FileOperationStarts(p)
  \/ \E p \in Procs, ok \in BOOLEAN : AppendFileDone(p, ok)
  \/ \E p \in Procs : DatabaseSaveSettled(p)
  \/ \E p \in Procs : ReadFileDone(p)
  \/ \E p \in Procs : RetrieveThrew(p)
  \/ \E p \in Procs : RetrieveSettled(p)
  \/ \E p \in Procs : GetStateSettled(p)
  \/ \E p \in Procs : ArchiveCalled(p)
  \/ \E p \in Procs : ArchiveContinues(p)
  \/ \E p \in Procs : ArchiveAppendDone(p)
  \/ \E p \in Procs : ArchiveWriteDone(p)
  \/ \E p \in Procs : ArchiveSettled(p)

SpecSnapshot == InitDatabase /\ [][NextSnapshot]_vars

\* The store whose saveEvent buffers its event while inTransaction is set
\* (src/unnamed/part_011).  Its requestLock, the grant of the lock and the
\* adapter's save are those of the actions above.

\* saveEvent(event) called by the application.
FlagCallSaveEvent(p) ==
  /\ IsNextCaller(p)
  /\ Open
  /\ op' = [op EXCEPT ![p] = "save"]
  /\ cur' = [cur EXCEPT ![p] = Event(p, 0)]
  /\ IF inTransaction
     THEN /\ uncommitedEvents' = Append(uncommitedEvents, Event(p, 0))
          /\ result' = [result EXCEPT ![p] = "null"]
          /\ pc' = [pc EXCEPT ![p] = "done"]
          /\ mq' = Yield(Entered)
          /\ UNCHANGED lockVars
     ELSE /\ LET r == requestLock(p, Token(p, 0), Lk(Entered)) IN
               /\ SetLk([r EXCEPT !.mq = Yield(@)])
               /\ pc' = [pc EXCEPT ![p] = At("sv", r)]
          /\ UNCHANGED <<uncommitedEvents, result, viewVars>>
  /\ UNCHANGED <<idx, got, errors, cacheVars, subscribers, log, histVars, obsVars,
                 subVars, fileVars, flagVars, viewVars>>

\* transaction(callback): the flag is set before the lock is asked for.
FlagCallTransaction(p) ==
  /\ IsNextCaller(p)
  /\ Open
  /\ inTransaction' = TRUE
  /\ LET r == requestLock(p, Token(p, 0), Lk(Entered)) IN
       /\ SetLk([r EXCEPT !.mq = Yield(@)])
       /\ pc' = [pc EXCEPT ![p] = At("tx", r)]
  /\ op' = [op EXCEPT ![p] = "tx"]
  /\ UNCHANGED <<cur, idx, got, result, errors, cacheVars, uncommitedEvents,
                 subscribers, log, histVars, obsVars, subVars, fileVars, viewVars>>

\* The callback awaits saveEvent(event): buffered while the flag is set,
\* else a saveEvent like any other, which asks for the lock.
FlagBodySaveEvent(p) ==
  /\ pc[p] = "tx_body"
  /\ Open
  /\ ncommits[p] < MaxBodySaves
  /\ committed' = [committed EXCEPT ![p] = Append(@, Event(p, ncommits[p] + 1))]
  /\ ncommits' = [ncommits EXCEPT ![p] = @ + 1]
  /\ IF inTransaction
     THEN /\ uncommitedEvents' = Append(uncommitedEvents, Event(p, ncommits[p] + 1))
          /\ UNCHANGED <<lockVars, mq, pc, cur, idx, viewVars>>
     ELSE /\ LET r == requestLock(p, Token(p, ncommits[p] + 1), Lk(Entered)) IN
               /\ SetLk([r EXCEPT !.mq = Yield(@)])
               /\ pc' = [pc EXCEPT ![p] = At("sv", r)]
          /\ cur' = [cur EXCEPT ![p] = Event(p, ncommits[p] + 1)]
          /\ idx' = [idx EXCEPT ![p] = ncommits[p]]
          /\ UNCHANGED uncommitedEvents
  /\ UNCHANGED <<op, got, result, errors, cacheVars, subscribers, log, handed, failed,
                 notified, obsVars, subVars, fileVars, flagVars, viewVars>>

\* saveEvent after eventAdapter.save: the state adapter gets the new state,
\* the subscribers are notified, the lock is released (the steps of the
\* state adapter are taken together with this one).
FlagSaveSettled(p) ==
  /\ Running(p)
  /\ pc[p] \in {"sv_ok", "sv_err"}
  /\ state' = IF pc[p] = "sv_ok" THEN replay(state, cur[p]) ELSE state
  /\ notified' = [notified EXCEPT ![p] = IF pc[p] = "sv_ok" THEN @ \o subscribers ELSE @]
  /\ LET lk == releaseLock(TokenOf(p), Lk(Popped)) IN
       SetLk([lk EXCEPT !.mq = Return(@)])
  /\ IF op[p] = "save"
     THEN /\ result' = [result EXCEPT ![p] = IF pc[p] = "sv_ok" THEN "null" ELSE "Error"]
          /\ pc' = [pc EXCEPT ![p] = "done"]
     ELSE /\ result' = result
          /\ pc' = [pc EXCEPT ![p] = "tx_body"]
  /\ UNCHANGED <<op, cur, idx, got, errors, events, uncommitedEvents, subscribers, log,
                 committed, handed, failed, ncommits, obsVars, subVars, fileVars, flagVars, viewVars>>

\* The callback awaits commit(): with an empty buffer commit notifies and
\* returns, else it calls eventAdapter.save(uncommitedEvents[0]).
FlagBodyCommit(p) ==
  /\ pc[p] = "tx_body"
  /\ Open
  /\ IF uncommitedEvents # <<>>
     THEN /\ cur' = [cur EXCEPT ![p] = Head(uncommitedEvents)]
          /\ pc' = [pc EXCEPT ![p] = "tx_commit"]
          /\ notified' = notified
     ELSE /\ notified' = [notified EXCEPT ![p] = @ \o subscribers]
          /\ UNCHANGED <<cur, pc, viewVars>>
  /\ UNCHANGED <<lockVars, mq, op, idx, got, result, errors, cacheVars, uncommitedEvents,
                 subscribers, log, committed, handed, failed, ncommits, obsVars, subVars,
                 fileVars, flagVars, viewVars>>

\* eventAdapter.save(uncommitedEvent) of commit completes, or fails: then
\* commit and with it the callback are rejected.
FlagCommitWrite(p, ok) ==
  /\ pc[p] = "tx_commit"
  /\ Open
  /\ mq' = Yield(Append(Entered, p))
  /\ pc' = [pc EXCEPT ![p] = IF ok THEN "tx_committed" ELSE "tx_catch"]
  /\ log' = IF ok THEN Append(log, cur[p]) ELSE log
  /\ failed' = IF ok THEN failed ELSE failed \cup {p}
  /\ UNCHANGED <<lockVars, op, cur, idx, got, result, errors, cacheVars, uncommitedEvents,
                 subscribers, committed, handed, ncommits, notified, obsVars, subVars,
                 fileVars, flagVars, viewVars>>

\* commit after its save: the state adapter gets the new state, the head of
\* the buffer is removed; the loop saves the next head, or commit notifies
\* and returns to the callback.
FlagCommitLoop(p) ==
  /\ Running(p)
  /\ pc[p] = "tx_committed"
  /\ state' = replay(state, cur[p])
  /\ uncommitedEvents' = splice(uncommitedEvents)
  /\ IF splice(uncommitedEvents) # <<>>
     THEN /\ cur' = [cur EXCEPT ![p] = Head(splice(uncommitedEvents))]
          /\ pc' = [pc EXCEPT ![p] = "tx_commit"]
          /\ mq' = Settle(Popped)
          /\ notified' = notified
     ELSE /\ cur' = cur
          /\ pc' = [pc EXCEPT ![p] = "tx_body"]
          /\ mq' = Return(Popped)
          /\ notified' = [notified EXCEPT ![p] = @ \o subscribers]
  /\ UNCHANGED <<lockVars, op, idx, got, result, errors, events, subscribers, log,
                 committed, handed, failed, ncommits, obsVars, subVars, fileVars, flagVars, viewVars>>

\* transaction after the callback: rollback() and a TransactionError if it
\* was rejected, null otherwise; finally the flag is cleared and the lock
\* released.
FlagTransactionSettled(p) ==
  /\ Running(p)
  /\ pc[p] \in {"tx_loop", "tx_catch"}
  /\ uncommitedEvents' = IF pc[p] = "tx_catch" THEN rollback(uncommitedEvents)
                         ELSE uncommitedEvents
  /\ result' = [result EXCEPT ![p] = IF pc[p] = "tx_catch" THEN "TransactionError" ELSE "null"]
  /\ inTransaction' = FALSE
  /\ LET lk == releaseLock(Token(p, 0), Lk(Popped)) IN
       SetLk([lk EXCEPT !.mq = Return(@)])
  /\ pc' = [pc EXCEPT ![p] = "done"]
  /\ UNCHANGED <<op, cur, idx, got, errors, cacheVars, subscribers, log, histVars,
                 obsVars, subVars, fileVars, viewVars>>

NextFlag ==
  \/ \E p \in Procs : FlagCallSaveEvent(p)
  \/ \E p \in Procs : FlagCallTransaction(p)
  \/ \E p \in Procs : LockResume(p)
  \/ \E p \in Procs : SaveGranted(p)
  \/ \E p \in Procs, ok \in BOOLEAN : AdapterSave(p, ok)
  \/ \E p \in Procs : FlagSaveSettled(p)
  \/ \E p \in Procs : TxGranted(p)
  \/ \E p \in Procs : FlagBodySaveEvent(p)
  \/ \E p \in Procs : FlagBodyCommit(p)
  \/ \E p \in Procs, ok \in BOOLEAN : FlagCommitWrite(p, ok)
  \/ \E p \in Procs : FlagCommitLoop(p)
  \/ \E p \in Procs, thrown \in BOOLEAN : BodySettled(p, thrown)
  \/ \E p \in Procs : FlagTransactionSettled(p)

SpecFlag == Init /\ [][NextFlag]_vars

\* adapter.save(event) of NodeJsonStreamAdapter when several saves are in
\* flight: appendFile puts the record into the file ...
AdapterWrite(p) ==
  /\ pc[p] = "sv_io"
  /\ Open
  /\ pc' = [pc EXCEPT ![p] = "sv_written"]
  /\ log' = Append(log, cur[p])
  /\ UNCHANGED <<lockVars, mq, op, cur, idx, got, result, errors, cacheVars,
                 uncommitedEvents, subscribers, histVars, obsVars, subVars, fileVars, flagVars, viewVars>>

\* ... and its promise resolves later; file operations that run side by
\* side need not complete in the order in which they wrote.
AdapterWritten(p) ==
  /\ pc[p] = "sv_written"
  /\ Open
  /\ mq' = Yield(Append(Entered, p))
  /\ pc' = [pc EXCEPT ![p] = "sv_ok"]
  /\ UNCHANGED <<lockVars, op, cur, idx, got, result, errors, cacheVars,
                 uncommitedEvents, subscribers, log, histVars, obsVars, subVars, fileVars, flagVars, viewVars>>

\* Callers that only save, over an adapter whose writes take time.
NextOrder ==
  \/ \E p \in Savers : CallSaveEvent(p)
  \/ \E p \in Savers : LockResume(p)
  \/ \E p \in Savers : SaveGranted(p)
  \/ \E p \in Savers : AdapterWrite(p)
  \/ \E p \in Savers : AdapterWritten(p)
  \/ \E p \in Savers : AdapterSave(p, FALSE)
  \/ \E p \in Savers : SaveSettled(p, Quiet)

SpecOrder == InitLock /\ [][NextOrder]_vars

\* The adapters' text formats (NodeJsonStreamAdapter, WebStorageEventAdapter,
\* JsonStreamEventAdapter), each save and retrieve taken as a whole.

\* The values an application saves: plain events, and an event whose data
\* holds a string with the characters ",]".
SavedValues == {Event(1, 0), Event(2, 0), WithCommaBracket(1)}

\* retrieve of NodeJsonStreamAdapter on the text of its file, retrieve of
\* WebStorageEventAdapter on the text of its item.
retrieve(text) == JSONparse(replace(text \o <<RightBracket>>))

\* this.storage.getItem(this.eventsKey) ?? "["
getItem == IF item = Null THEN <<LeftBracket>> ELSE item

\* save of NodeJsonStreamAdapter and of JsonStreamEventAdapter: the value
\* and ",\n" are appended to the file, which starts as "[\n".
FileSave(value) ==
  /\ Len(appended) < MaxSaved
  /\ eventsFile' = eventsFile \o stringify(value) \o <<Comma, LineFeed>>
  /\ appended' = Append(appended, value)
  /\ UNCHANGED <<lockVars, mq, op, pc, cur, got, result, storeVars, archiveFile, webVars, flagVars, viewVars>>

\* archive of JsonStreamEventAdapter with the snapshot takeSnapshot builds:
\* the events go to the archive file, the live file is written anew.
FileArchive ==
  /\ retrieveEvents(eventsFile).ok
  /\ appended # <<>>
  /\ \A i \in 1..Len(appended) : ~IsSnapshot(appended[i])
  /\ LET snapshotEvent == SnapshotEvent(reduce(retrieveEvents(eventsFile).value, initialState))
     IN /\ archiveFile' = archiveFile \o serializedEvents(retrieveEvents(eventsFile).value)
        /\ eventsFile' = <<LeftBracket, LineFeed>> \o stringify(snapshotEvent) \o <<Comma>>
        /\ appended' = <<snapshotEvent>>
  /\ UNCHANGED <<lockVars, mq, op, pc, cur, got, result, storeVars, webVars, flagVars, viewVars>>

\* save of WebStorageEventAdapter: the value and "," are added to the item.
StorageSave(value) ==
  /\ Len(stored) < MaxSaved
  /\ item' = getItem \o stringify(value) \o <<Comma>>
  /\ stored' = Append(stored, value)
  /\ UNCHANGED <<lockVars, mq, op, pc, cur, got, result, storeVars, eventsFile, archiveFile,
                 appended, flagVars, viewVars>>

\* Caller p gets what a retrieve gives for text, or its rejection.
Retrieved(p, adapter, parsed) ==
  /\ op' = [op EXCEPT ![p] = adapter]
  /\ got' = [got EXCEPT ![p] = parsed.value]
  /\ result' = [result EXCEPT ![p] = IF parsed.ok THEN "null" ELSE "Error"]
  /\ pc' = [pc EXCEPT ![p] = "done"]
  /\ UNCHANGED <<lockVars, mq, cur, storeVars, fileVars, flagVars, viewVars>>

\* retrieve() of NodeJsonStreamAdapter
NodeRetrieve(p) ==
  /\ IsNextCaller(p)
  /\ Retrieved(p, "node", retrieve(eventsFile))

\* retrieve() of JsonStreamEventAdapter
JsonStreamRetrieve(p) ==
  /\ IsNextCaller(p)
  /\ Retrieved(p, "json-stream", retrieveEvents(eventsFile))

\* retrieve() of WebStorageEventAdapter
StorageRetrieve(p) ==
  /\ IsNextCaller(p)
  /\ Retrieved(p, "storage", retrieve(getItem))

NextRoundTrip ==
  \/ \E value \in SavedValues : FileSave(value)
  \/ FileArchive
  \/ \E value \in SavedValues : StorageSave(value)
  \/ \E p \in Procs : NodeRetrieve(p)
  \/ \E p \in Procs : JsonStreamRetrieve(p)
  \/ \E p \in Procs : StorageRetrieve(p)

SpecRoundTrip == Init /\ [][NextRoundTrip]_vars

----------------------------------------------------------------------------
\* save and retrieve of NodeJsonStreamAdapter step by step, called side by
\* side on a path where no file exists yet.  Every step is one file
\* operation together with the code that runs when it has completed.

\* pathStat.isFile() for what is at the path; no file is the text Null.
isFile(file) == file # Null

InitMissing ==
  /\ Constructed
  /\ log = <<>>
  /\ eventsFile = Null
  /\ archiveFile = emptyFile
  /\ appended = <<>>
  /\ item = Null
  /\ stored = <<>>

\* save(event) or retrieve() is called: stat(this.path) is started.
NodeCalled(p, operation) ==
  /\ IsNextCaller(p)
  /\ op' = [op EXCEPT ![p] = operation]
  /\ cur' = [cur EXCEPT ![p] = Event(p, 0)]
  /\ pc' = [pc EXCEPT ![p] = "nd_stat"]
  /\ UNCHANGED <<lockVars, mq, got, result, storeVars, fileVars, flagVars, viewVars>>

\* stat completes: writeFile(this.path, "[\n") is started if there is no
\* file, else appendFile or readFile.
NodeStat(p) ==
  /\ pc[p] = "nd_stat"
  /\ pc' = [pc EXCEPT ![p] = IF ~isFile(eventsFile) THEN "nd_create"
                             ELSE IF op[p] = "node-save" THEN "nd_append" ELSE "nd_read"]
  /\ UNCHANGED <<lockVars, mq, op, cur, got, result, storeVars, fileVars, flagVars, viewVars>>

\* writeFile(this.path, "[\n") completes: the file holds "[\n" and nothing else.
NodeWriteFile(p) ==
  /\ pc[p] = "nd_create"
  /\ eventsFile' = emptyFile
  /\ pc' = [pc EXCEPT ![p] = IF op[p] = "node-save" THEN "nd_append" ELSE "nd_read"]
  /\ UNCHANGED <<lockVars, mq, op, cur, got, result, storeVars, archiveFile, appended,
                 webVars, flagVars, viewVars>>

\* appendFile(this.path, JSON.stringify(event) + ",\n") completes, save returns.
NodeAppendFile(p) ==
  /\ pc[p] = "nd_append"
  /\ eventsFile' = eventsFile \o stringify(cur[p]) \o <<Comma, LineFeed>>
  /\ appended' = Append(appended, cur[p])
  /\ result' = [result EXCEPT ![p] = "null"]
  /\ pc' = [pc EXCEPT ![p] = "done"]
  /\ UNCHANGED <<lockVars, mq, op, cur, got, storeVars, archiveFile, webVars, flagVars, viewVars>>

\* readFile(this.path) completes, retrieve parses the text and returns.
NodeReadFile(p) ==
  /\ pc[p] = "nd_read"
  /\ got' = [got EXCEPT ![p] = retrieve(eventsFile).value]
  /\ result' = [result EXCEPT ![p] = IF retrieve(eventsFile).ok THEN "null" ELSE "Error"]
  /\ pc' = [pc EXCEPT ![p] = "done"]
  /\ UNCHANGED <<lockVars, mq, op, cur, storeVars, fileVars, flagVars, viewVars>>

NextNode ==
  \/ \E p \in Procs, operation \in {"node-save", "node"} : NodeCalled(p, operation)
  \/ \E p \in Procs : NodeStat(p)
  \/ \E p \in Procs : NodeWriteFile(p)
  \/ \E p \in Procs : NodeAppendFile(p)
  \/ \E p \in Procs : NodeReadFile(p)

SpecNode == InitMissing /\ [][NextNode]_vars

----------------------------------------------------------------------------
TypeOK ==
  /\ eventsArray = Len(retired) + 1
  /\ \A p \in DOMAIN obtained : obtained[p] = Null \/ obtained[p][1] \in 1..eventsArray
  /\ inTransaction \in BOOLEAN
  /\ \A p \in DOMAIN pc : pc[p] \in {"idle", "sv_lock", "sv_granted", "sv_io", "sv_written", "sv_ok",
                                 "sv_err",
                                 "in_lock", "in_granted", "in_io", "in_got", "in_err",
                                 "tx_lock", "tx_granted", "tx_body", "tx_loop", "tx_saved",
                                 "tx_catch", "tx_commit", "tx_committed", "done",
                                 "ds_lock", "ds_granted", "ds_io", "ds_appended", "ds_threw",
                                 "dr_lock", "dr_granted", "dr_io", "dr_read", "dr_threw",
                                 "dg_state", "dt_snap", "da_lock", "da_granted", "da_io",
                                 "da_read", "da_io2", "da_appended", "da_io3", "da_written",
                                 "nd_stat", "nd_create", "nd_append", "nd_read"}
  /\ \A i \in 1..Len(mq) : mq[i] \in DOMAIN pc \cup {UserSlot}
  /\ \A i \in 1..(Len(mq) - 1) : mq[i] # UserSlot \/ mq[i + 1] # UserSlot
  /\ mq # <<UserSlot>>
  /\ (Open /\ mq # <<>>) => mq[Len(mq)] = UserSlot

----------------------------------------------------------------------------
\* Vocabulary of the properties

Holders == {t[1] : t \in held}

IsTransaction(p) == op[p] = "tx"

Returned(p) == pc[p] = "done"

\* The elements of s that belong to S, in the order of s.
Restrict(s, S) == SelectSeq(s, LAMBDA e : e \in S)

\* Caller p has called requestLock for its operation and is suspended in it.
Waiting(p) == pc[p] \in {"sv_lock", "in_lock", "tx_lock"} /\ TokenOf(p) = Token(p, 0)

\* requestLock has returned its release function to the operation of p.
Granted(p) == pc[p] # "idle" /\ ~Waiting(p)

\* The events the callback of p committed before a rollback() of its own.
Discarded(p) == {Event(p, k) : k \in 1..ncommits[p]} \ Range(committed[p])

\* The number of times listener l occurs in the invocations s.
Invocations(s, l) == Cardinality({i \in 1..Len(s) : s[i] = l})

EventsOf(p) == {Event(p, k) : k \in 1..MaxCommits}

\* Replay: the fold of a sequence of events from state st.
RECURSIVE fold(_, _)
fold(st, evs) == IF evs = <<>> THEN st ELSE fold(replay(st, Head(evs)), Tail(evs))

MalformedIn(recs) == {i \in 1..Len(recs) : parser(recs[i]).isError}

----------------------------------------------------------------------------
\* C1: mutual exclusion of the promise-slot lock: at every moment at most
\* one caller is between being handed a release function by requestLock and
\* calling it.
MutualExclusion == Cardinality(Holders) <= 1

\* C2: a transaction that persists its buffered events never waits on the
\* lock it is holding itself: no saveEvent made by a transaction is
\* suspended on the promise that only this transaction's own return
\* resolves (from such a state the transaction never returns).
TransactionNeverWaitsOnItself ==
  \A p \in Procs :
    ~(/\ IsTransaction(p)
      /\ pc[p] = "sv_lock"
      /\ Token(p, 0) \in held
      /\ \E i \in 1..Len(waitq) : waitq[i] = <<p, Token(p, 0)>>)

\* C3: when a transaction whose body committed E1..En returns null, with no
\* other transaction around and no rejected save, the adapter log and the
\* cache hold E1..En, each once, in commit order.
TransactionPersistsAllInOrder ==
  \A p \in Procs :
    (/\ IsTransaction(p) /\ Returned(p) /\ result[p] = "null"
     /\ failed = {}
     /\ \A q \in Procs \ {p} : ~IsTransaction(q))
    => /\ Restrict(log, EventsOf(p)) = committed[p]
       /\ Restrict(events, EventsOf(p)) = committed[p]

\* C4: no event committed by a transaction whose body then raised a fault
\* (the transaction returned a TransactionError) is ever handed to the
\* adapter, persisted, or folded into the cache.
FaultedTransactionPersistsNothing ==
  \A p \in Procs :
    (IsTransaction(p) /\ Returned(p) /\ result[p] = "TransactionError")
    => /\ EventsOf(p) \cap Range(handed) = {}
       /\ EventsOf(p) \cap Range(log) = {}
       /\ EventsOf(p) \cap Range(events) = {}
       /\ EventsOf(p) \cap Range(state) = {}

\* C5: transaction atomicity: once a transaction that committed E1..En has
\* returned, the adapter log holds all of E1..En or none of them, and so
\* does the cache.
TransactionAllOrNothing ==
  \A p \in Procs :
    (IsTransaction(p) /\ Returned(p) /\ \A q \in Procs \ {p} : ~IsTransaction(q))
    => /\ Range(committed[p]) \cap Range(log) \in {{}, Range(committed[p])}
       /\ Range(committed[p]) \cap Range(events) \in {{}, Range(committed[p])}

\* C6: a transaction one of whose adapter.save calls was rejected does not
\* return null.
TransactionReportsSaveFailure ==
  \A p \in Procs :
    (IsTransaction(p) /\ Returned(p) /\ p \in failed) => result[p] # "null"

\* C7: write atomicity of saveEvent: the step in which saveEvent resumes
\* after adapter.save was rejected leaves state and events as they are,
\* invokes no listener, releases the lock it was granted and, for a direct
\* call, returns an Error value to the caller, its event being neither in
\* the cache nor in the adapter log.
SaveFailureIsAtomic ==
  [][\A p \in Procs :
       (pc[p] = "sv_err" /\ pc'[p] # "sv_err")
       => /\ state' = state
          /\ events' = events
          /\ notified'[p] = notified[p]
          /\ TokenOf(p) \notin held'
          /\ TokenOf(p) \in resolved'
          /\ (op[p] = "save" => /\ pc'[p] = "done" /\ result'[p] = "Error"
                                /\ cur[p] \notin Range(events') \cup Range(log'))]_vars

\* A direct saveEvent whose adapter.save was rejected has returned while a
\* listener was subscribed.
SaveFailureWitness ==
  \E p \in Procs :
    /\ op[p] = "save" /\ Returned(p) /\ p \in failed /\ result[p] = "Error"
    /\ subscribers # <<>>

\* C11: while the last initialize() to return has returned a CorruptionError
\* and no initialize() has succeeded since, no saveEvent or transaction called
\* in that time is accepted (none returns null, none appends to the log).
CorruptedRejectsOperations ==
  Corrupted =>
    \A q \in calledCorrupted :
      (op[q] \in {"save", "tx"} /\ Returned(q))
      => /\ result[q] # "null"
         /\ Event(q, 0) \notin Range(log)

\* C12: a saveEvent that returns null has invoked every listener subscribed
\* when its notification started exactly once, in the order of subscription,
\* with the event already folded into the cache; a saveEvent whose write was
\* rejected invokes no listener.
EverySubscriberNotifiedOnce ==
  [][\A p \in Procs :
       /\ (pc[p] = "sv_ok" /\ pc'[p] = "done" /\ result'[p] = "null")
          => /\ notified'[p] = notified[p] \o subscribers
             /\ state' = replay(state, cur[p])
             /\ events' = Append(events, cur[p])
       /\ (pc[p] = "sv_err" /\ pc'[p] = "done")
          => notified'[p] = notified[p]]_vars

\* C13: a transaction that returned null has invoked no listener more than
\* once, however many events it persisted.
TransactionNotifiesOnce ==
  \A p \in Procs :
    (IsTransaction(p) /\ Returned(p) /\ result[p] = "null")
    => \A l \in Listeners : Invocations(notified[p], l) <= 1

\* C14: whatever its listeners do, a saveEvent whose write succeeded returns
\* null, with the event persisted and folded into the cache.
ListenerFaultIsContained ==
  [][\A p \in Procs :
       (op[p] = "save" /\ pc[p] = "sv_ok" /\ pc'[p] = "done")
       => /\ result'[p] = "null"
          /\ cur[p] \in Range(log')
          /\ events' = Append(events, cur[p])
          /\ state' = replay(state, cur[p])]_vars

\* C15: a call of the function the i-th subscribe() returned leaves the
\* registrations of the other listeners as they are, in their order, and a
\* call after the first removes nothing at all.
UnsubscribeRemovesOwnRegistration ==
  [][\A i \in 1..Len(calls) :
       (Len(calls') = Len(calls) /\ calls'[i] = calls[i] + 1)
       => /\ SelectSeq(subscribers', LAMBDA l : l # registered[i])
               = SelectSeq(subscribers, LAMBDA l : l # registered[i])
          /\ calls[i] >= 1 => subscribers' = subscribers]_vars

\* C16: once the callback of a transaction has returned having committed A
\* then B, getEvents() and getState() never show A without B.
NoPartialTransactionVisible ==
  \A p \in Procs :
    (IsTransaction(p) /\ pc[p] \notin {"tx_lock", "tx_granted", "tx_body", "tx_catch"}
       /\ result[p] # "TransactionError" /\ Len(committed[p]) >= 2)
    => /\ committed[p][1] \in Range(events) => committed[p][2] \in Range(events)
       /\ committed[p][1] \in Range(state) => committed[p][2] \in Range(state)

\* C17: when caller p issued a transaction before caller q issued a
\* saveEvent, no event of p's transaction is appended to the log after the
\* event of q.
TransactionPersistsBeforeLaterSave ==
  \A p \in Procs : \A q \in Procs :
    (p < q /\ IsTransaction(p) /\ op[q] = "save")
    => \A i \in 1..Len(log) : \A j \in 1..Len(log) :
         (log[i] = Event(q, 0) /\ log[j] \in EventsOf(p)) => j < i

\* C18: no caller is granted the lock while a caller that called requestLock
\* before it is still waiting for it.
FifoService ==
  \A x \in DOMAIN pc : \A y \in DOMAIN pc :
    (x < y /\ Waiting(x)) => ~Granted(y)

\* C19: in a transaction whose callback called rollback(), with no other
\* transaction around, no event committed before the rollback is ever handed
\* to the adapter, and once the transaction has returned null the events
\* committed after the rollback are in the log, in commit order.
RollbackDiscardsEarlierCommits ==
  \A p \in Procs :
    (/\ IsTransaction(p) /\ Discarded(p) # {}
     /\ \A q \in Procs \ {p} : ~IsTransaction(q))
    => /\ Discarded(p) \cap Range(handed) = {}
       /\ (Returned(p) /\ result[p] = "null" /\ p \notin failed)
          => Restrict(log, EventsOf(p)) = committed[p]

\* The values written in a file, in order.
Records(text) ==
  LET values == SelectSeq(text, LAMBDA c : c[1] = "json")
  IN [i \in 1..Len(values) |-> values[i][2]]

\* recs sits in file as one run of consecutive records.
OccursIn(recs, file) ==
  \E k \in 0..(Len(file) - Len(recs)) : SubSeq(file, k + 1, k + Len(recs)) = recs

\* recs is how file starts.
StartsWith(file, recs) ==
  Len(recs) <= Len(file) /\ SubSeq(file, 1, Len(recs)) = recs

\* Caller p is in archive between the end of its appendFile to the archive
\* file and the end of its writeFile to the live file.
BetweenArchiveSteps(p) == pc[p] \in {"da_appended", "da_io3"}

\* C22: archive overwrites the live file only after its append to the
\* archive file has completed, so at any point between the two steps the
\* archive file holds the events archive read, and the disk holds either the
\* whole original live log or a live log that starts with a snapshot event:
\* never fewer events than before.
ArchiveBeforeOverwrite ==
  \A p \in Procs :
    /\ (BetweenArchiveSteps(p) \/ pc[p] = "da_written") =>
         OccursIn(got[p], Records(archiveFile))
    /\ BetweenArchiveSteps(p) =>
         \/ StartsWith(Records(eventsFile), got[p])
         \/ /\ Records(eventsFile) # <<>>
            /\ IsSnapshot(Records(eventsFile)[1])

\* An archive over a live log with two events has appended them to the
\* archive file and has not yet overwritten the live file.
ArchiveBeforeOverwriteWitness ==
  \E p \in Procs :
    /\ pc[p] = "da_io3"
    /\ Len(got[p]) = 2
    /\ Records(archiveFile) = got[p]
    /\ Records(eventsFile) = got[p]

\* The records of recs that are not snapshot events.
EventsIn(recs) == SelectSeq(recs, LAMBDA r : ~IsSnapshot(r))

\* C23: whenever every saveEvent and takeSnapshot call made so far has
\* returned, the events of the archive file followed by those of the live
\* file are exactly the events ever appended: each once, in the order in
\* which they were saved.
HistoryIsNeverLost ==
  Settled => EventsIn(Records(archiveFile) \o Records(eventsFile)) = EventsIn(appended)

\* Caller q is in save, retrieve or archive between the grant of the lock
\* and its releaseLock().
Leased(q) ==
  pc[q] \in {"ds_granted", "ds_io", "ds_appended", "dr_granted", "dr_io", "dr_read",
             "da_granted", "da_io", "da_read", "da_io2", "da_appended", "da_io3",
             "da_written"}

\* A file operation of caller p completes with success in this step.
FileOperationOf(p) ==
  /\ pc[p] \in {"ds_io", "dr_io", "da_io", "da_io2", "da_io3"}
  /\ pc'[p] \notin {pc[p], "ds_threw", "dr_threw"}

\* C24: save, retrieve and archive exclude each other: no read, append or
\* overwrite of one call completes while another call is between the grant
\* of the lock and its releaseLock().
AdapterCallsAreExclusive ==
  [][\A p \in Procs : FileOperationOf(p) => \A q \in Procs \ {p} : ~Leased(q)]_vars

\* C27: whenever no transaction is running, the buffer of uncommitted
\* events is empty: a transaction that has returned leaves no event behind
\* for a later transaction to persist.
BufferEmptyOutsideTransactions ==
  (\A p \in Procs : IsTransaction(p) => Returned(p)) => uncommitedEvents = <<>>

\* C29: once an initialize() has returned null, whenever no operation is in
\* flight getEvents() is the sequence of records of the adapter's log and
\* getState() is the fold of that sequence from options.state.
CacheMatchesLog ==
  (/\ \E p \in Procs : op[p] = "init" /\ Returned(p) /\ result[p] = "null"
   /\ \A p \in Procs : pc[p] \in {"idle", "done"}) =>
     /\ events = log
     /\ state = fold(initialState, log)

\* The place of record r in the sequence s that holds it.
PlaceIn(s, r) == CHOOSE i \in 1..Len(s) : s[i] = r

\* C30: however concurrently issued saveEvent calls interleave, their events
\* stand in the getEvents() cache in the order in which they stand in the
\* adapter's log.
CacheOrderIsLogOrder ==
  \A i, j \in 1..Len(events) :
    (i < j /\ events[i] \in Range(log) /\ events[j] \in Range(log)) =>
      PlaceIn(log, events[i]) < PlaceIn(log, events[j])

\* C25: whatever values have been saved through an adapter, also values
\* whose text holds ",]" and also after archive has written the live file
\* anew, retrieve() gives the saved values in the order they were saved;
\* on an empty store it gives the empty sequence.
FormatRoundTrip ==
  [][\A p \in Procs :
       (pc[p] = "idle" /\ pc'[p] = "done") =>
         /\ result'[p] = "null"
         /\ got'[p] = IF op'[p] = "storage" THEN stored ELSE appended]_vars

\* Every record the file at path.events has ever held passes a schema.
WellFormedHistory == \A i \in 1..Len(appended) : safeParse(appended[i]).success

\* C21: once every saveEvent and takeSnapshot call issued, in any
\* interleaving, has returned without an error over a well-formed file,
\* getState() is the fold of every event saved: none saved between a
\* snapshot's reading of the state and its archive step is dropped.
SnapshotKeepsConcurrentSaves ==
  (/\ Settled
   /\ WellFormedHistory
   /\ \A p \in Procs : pc[p] = "done" => result[p] = "null") =>
     /\ retrieveEvents(eventsFile).ok
     /\ reduce(retrieveEvents(eventsFile).value, initialState) = reduce(appended, initialState)

\* The events getState() reads from the file at path.events.
LiveLog(text) == retrieveEvents(text).value

\* C20: when calls are awaited one after another, the writeFile of a
\* takeSnapshot over the live log L leaves a live log that is exactly one
\* snapshot event whose data is replay(L), so getState() is the same before
\* and after; and as long as the live log has been readable, also after
\* later saves, it stays readable and getState() is the fold of the events
\* found at the start followed by every event saved since.
SnapshotEquivalence ==
  [][/\ \A p \in Procs :
          (pc[p] = "da_io3" /\ pc'[p] = "da_written") =>
            (/\ retrieveEvents(eventsFile').ok
            /\ LiveLog(eventsFile') =
                 <<SnapshotEvent(reduce(LiveLog(eventsFile), initialState))>>
            /\ reduce(LiveLog(eventsFile'), initialState) =
                 reduce(LiveLog(eventsFile), initialState))
    /\ retrieveEvents(eventsFile).ok =>
            /\ retrieveEvents(eventsFile').ok
            /\ reduce(LiveLog(eventsFile'), initialState) = reduce(appended', initialState)]_vars

\* A takeSnapshot over a live log with an event has returned, and an event
\* saved after it sits behind the snapshot event in the live log.
SnapshotEquivalenceWitness ==
  /\ \E p \in Procs : op[p] = "snapshot" /\ pc[p] = "done" /\ result[p] = "null"
  /\ Len(LiveLog(eventsFile)) = 2
  /\ IsSnapshot(LiveLog(eventsFile)[1])
  /\ Len(LiveLog(eventsFile)[1][2]) = 2
  /\ ~IsSnapshot(LiveLog(eventsFile)[2])
  /\ Len(appended) = 3

\* C8: after one or more successful initialize() calls and nothing else,
\* getState() is the fold of the log from options.state and getEvents() is
\* the log.
ReplayIsDeterministic ==
  (/\ \A p \in Procs : op[p] \in {"none", "init"}
   /\ \E p \in Procs : Returned(p)
   /\ \A p \in Procs : Returned(p) => result[p] = "null")
  => /\ state = fold(initialState, log)
     /\ events = log

\* C9: an initialize() that returns a CorruptionError because the parser
\* rejected a record leaves state and events as they were.
CorruptionLeavesCacheUntouched ==
  [][\A p \in Procs :
       (pc[p] = "in_got" /\ result'[p] = "CorruptionError")
       => state' = state /\ events' = events]_vars

\* C10: when the log read by initialize() holds k >= 1 malformed records,
\* the errors list of the CorruptionError returned has exactly k entries.
CorruptionIsAggregated ==
  \A p \in Procs :
    (op[p] = "init" /\ Returned(p) /\ MalformedIn(got[p]) # {})
    => /\ result[p] = "CorruptionError"
       /\ errors[p] = Cardinality(MalformedIn(got[p]))

\* C26: in the store with the inTransaction flag, a saveEvent called outside
\* any transaction callback returns null only if eventAdapter.save has
\* appended its event to the log, also while another caller's transaction
\* is in progress or waits for the lock.
SaveEventNullMeansAppended ==
  \A p \in Procs :
    (~IsTransaction(p) /\ Returned(p) /\ result[p] = "null") => cur[p] \in Range(log)

\* C28: in the store with the inTransaction flag, concurrently issued
\* transactions whose callbacks await saveEvent and then commit() all
\* return: the saveEvent of a callback is buffered, so none is suspended in
\* requestLock on the unresolved promise of the transaction it belongs to
\* (from such a state that transaction never returns).
CallbackSaveEventIsBuffered ==
  \A p \in Procs :
    (IsTransaction(p) /\ pc[p] = "sv_lock")
      => \E i \in 1..Len(waitq) :
           waitq[i][1] = p /\ (waitq[i][2] # Token(p, 0) \/ Token(p, 0) \in resolved)

\* C31: NodeJsonStreamAdapter, starting without a file: however save() and
\* retrieve() calls interleave, the step that creates the file with "[\n"
\* never overwrites an appended event: the event of every save() that has
\* returned is in the file.
CreateKeepsAppendedEvents ==
  \A p \in Procs :
    (op[p] = "node-save" /\ Returned(p)) => cur[p] \in Range(Records(eventsFile))

\* C32: when a file operation fails inside save, retrieve or archive of
\* JsonStreamEventAdapter (a corrupted record rejected by retrieve
\* included), the lock is released all the same: no call has returned while
\* the promise it put into the lock slot is still unresolved (a later call
\* would wait for it for ever).
FailedCallReleasesLock ==
  \A p \in Procs : Returned(p) => p \notin Holders

\* The operation that owns promise Token(p, i) leaves in this step:
\* initialize, saveEvent or transaction of caller p returns (i = 0), or the
\* i-th saveEvent of p's transaction returns into its loop.
Exits(p, i) ==
  IF i = 0 THEN pc[p] # "done" /\ pc'[p] = "done"
  ELSE pc[p] \in {"sv_ok", "sv_err"} /\ pc'[p] = "tx_saved" /\ idx[p] + 1 = i

\* C33: initialize, saveEvent and transaction release the lock they
\* acquired exactly once on every exit path (success, adapter failure,
\* parser failure, reducer exception, listener exception, fault of the
\* callback): the release function of an operation is called in the step
\* in which the operation returns, and in no other step.
ReleasedExactlyOnExit ==
  [][\A p \in Procs : \A i \in 0..MaxCommits :
       (Token(p, i) \in resolved' \ resolved) <=> Exits(p, i)]_vars

ReleasedExactlyOnExitWitness ==
  /\ \A p \in Procs : Returned(p) /\ Token(p, 0) \in resolved
  /\ held = {}
  /\ {result[p] : p \in Procs} = {"CorruptionError", "Error", "TransactionError"}

\* C34: starvation freedom of the promise-slot lock: when every holder
\* calls its release function in the end, every requestLock call is granted
\* in the end, whatever the number of callers and the order they arrive in:
\* no caller stays suspended on a promise that is never resolved.
EveryRequestIsGranted ==
  \A p \in Savers : (pc[p] = "sv_lock") ~> (Token(p, 0) \in held)

EveryRequestIsGrantedWitness ==
  \E q \in Savers \ {1} :
    /\ Token(q, 0) \in held
    /\ pc[1] = "done"
    /\ \E i \in 1..Len(waitq) : waitq[i][2] = Token(q, 0)

\* C35: a listener that calls its own unsubscribe function while it is
\* notified makes no other listener miss the round: every listener
\* subscribed when the round of a saveEvent started, and in which no
\* listener threw, is invoked in that round.
SelfUnsubscribeSkipsNobody ==
  [][\A p \in Procs :
       (pc[p] = "sv_ok" /\ pc'[p] = "done" /\ result'[p] = "null" /\ notified[p] = <<>>)
       => Range(subscribers) \subseteq Range(notified'[p])]_vars

\* C36: a value getEvents() returned is a snapshot in time: the sequence a
\* caller obtained holds, after any later saveEvent, what it held when the
\* caller obtained it.
GetEventsIsSnapshot ==
  \A p \in Procs :
    (op[p] = "events" /\ Returned(p)) => Contents(obtained[p][1]) = obtained[p][2]

====
